---- MODULE Spec2Model ----
(***************************************************************************)
(* Model of src/app.py: the strict coordinate validator, the coordinate    *)
(* cleaner, the three-source load/normalise/reconcile pipeline and the     *)
(* session logic of main().                                                *)
(*                                                                         *)
(* Coordinates are fixed-point numbers in tenths of a degree (every bound  *)
(* of Config is a multiple of 0.1), so 105.8 is written 1058.  Comparisons *)
(* with NaN are false, as in Python.  Strings that the code inspects are   *)
(* sequences of one-character strings.                                     *)
(***************************************************************************)
EXTENDS Integers, Sequences, FiniteSets, TLC

VARIABLES
    lat, lon, valid,            \* validator: arguments, returned value ("none" before)
    df, cleaned, st_log,        \* cleaner: argument, returned table, st.* messages
    files, cache,               \* the three parquet files, the st.cache_data entry
    ret, run_log, norm,         \* pipeline: returned triple, its messages, the
                                \*   normalised sets before reconciliation
    pc, session, invoked        \* main(): position, st.session_state, whether the
                                \*   session has completed a pipeline call

vars == <<lat, lon, valid, df, cleaned, st_log, files, cache, ret, run_log,
          norm, pc, session, invoked>>

(***************************************************************************)
(* Floats                                                                  *)
(***************************************************************************)
\* A cell of a table is a record [k, v]: k is the kind of value, v its payload.
\*   "num"     a float, v tenths of a degree      "nan"  float NaN
\*   "none"    a missing value (None)             "text" a non-numeric string
\*   "numtext" a string that spells the number v  "str"  a string, v its characters
\*   "bool"    a Boolean, v 1 for True and 0 for False
\*   "number"  a number in a column of names, v the characters of its text
Num(v) == [k |-> "num", v |-> v]
NaN == [k |-> "nan", v |-> 0]
None == [k |-> "none", v |-> 0]
Text == [k |-> "text", v |-> 0]
NumText(v) == [k |-> "numtext", v |-> v]
Str(s) == [k |-> "str", v |-> s]
NoStr == [k |-> "none", v |-> <<>>]
Bool(b) == [k |-> "bool", v |-> IF b THEN 1 ELSE 0]
Number(s) == [k |-> "number", v |-> s]

\* pd.isna / pd.notna on a cell
isna(x) == x.k \in {"nan", "none"}

\* lo <= x <= hi for numeric bounds lo, hi and a float x (false for NaN)
Between(lo, x, hi) == x.k = "num" /\ lo <= x.v /\ x.v <= hi

(***************************************************************************)
(* Config                                                                  *)
(***************************************************************************)
INDONESIA_STRICT_BOUNDS ==
    [ sumatera   |-> [min_lat |-> -60, max_lat |-> 55, min_lon |-> 950,  max_lon |-> 1058],
      jawa       |-> [min_lat |-> -89, max_lat |-> -55, min_lon |-> 1055, max_lon |-> 1145],
      kalimantan |-> [min_lat |-> -42, max_lat |-> 40, min_lon |-> 1085, max_lon |-> 1190],
      bali_nt    |-> [min_lat |-> -95, max_lat |-> -80, min_lon |-> 1150, max_lon |-> 1190],
      sulawesi   |-> [min_lat |-> -65, max_lat |-> 15, min_lon |-> 1185, max_lon |-> 1250] ]

FORBIDDEN_AREAS ==
    << [min_lat |-> 10,   max_lat |-> 70,  min_lon |-> 990,  max_lon |-> 1050],
       [min_lat |-> 12,   max_lat |-> 15,  min_lon |-> 1035, max_lon |-> 1042],
       [min_lat |-> 40,   max_lat |-> 80,  min_lon |-> 1090, max_lon |-> 1200],
       [min_lat |-> 40,   max_lat |-> 70,  min_lon |-> 1160, max_lon |-> 1270],
       [min_lat |-> -95,  max_lat |-> -80, min_lon |-> 1240, max_lon |-> 1275],
       [min_lat |-> -110, max_lat |-> -10, min_lon |-> 1400, max_lon |-> 1550] >>

(***************************************************************************)
(* The validator                                                           *)
(***************************************************************************)
\* Mutant: the longitude test of the exclusion boxes is strict on the right.
is_in_forbidden_area_open(la, lo) ==
    \E i \in DOMAIN FORBIDDEN_AREAS :
        /\ Between(FORBIDDEN_AREAS[i].min_lat, la, FORBIDDEN_AREAS[i].max_lat)
        /\ Between(FORBIDDEN_AREAS[i].min_lon, lo, FORBIDDEN_AREAS[i].max_lon - 1)

is_in_forbidden_area(la, lo) ==
    \E i \in DOMAIN FORBIDDEN_AREAS :
        /\ Between(FORBIDDEN_AREAS[i].min_lat, la, FORBIDDEN_AREAS[i].max_lat)
        /\ Between(FORBIDDEN_AREAS[i].min_lon, lo, FORBIDDEN_AREAS[i].max_lon)

\* Mutant: the inclusion boxes are tested before the exclusion boxes.
validate_indonesia_inclusion_first(la, lo) ==
    IF isna(la) \/ isna(lo) THEN FALSE
    ELSE IF ~Between(-900, la, 900) \/ ~Between(-1800, lo, 1800) THEN FALSE
    ELSE IF \E region \in DOMAIN INDONESIA_STRICT_BOUNDS :
                /\ Between(INDONESIA_STRICT_BOUNDS[region].min_lat, la,
                           INDONESIA_STRICT_BOUNDS[region].max_lat)
                /\ Between(INDONESIA_STRICT_BOUNDS[region].min_lon, lo,
                           INDONESIA_STRICT_BOUNDS[region].max_lon)
         THEN TRUE
    ELSE FALSE

validate_indonesia_strict(la, lo) ==
    IF isna(la) \/ isna(lo) THEN FALSE
    ELSE IF ~Between(-900, la, 900) \/ ~Between(-1800, lo, 1800) THEN FALSE
    ELSE IF is_in_forbidden_area(la, lo) THEN FALSE
    ELSE \E region \in DOMAIN INDONESIA_STRICT_BOUNDS :
            /\ Between(INDONESIA_STRICT_BOUNDS[region].min_lat, la,
                       INDONESIA_STRICT_BOUNDS[region].max_lat)
            /\ Between(INDONESIA_STRICT_BOUNDS[region].min_lon, lo,
                       INDONESIA_STRICT_BOUNDS[region].max_lon)

(***************************************************************************)
(* Tables (DataFrames) and st.* messages                                   *)
(***************************************************************************)
\* A DataFrame: its column labels and its rows, each row a function from the
\* column labels to cells.
Frame(columns, rows) == [columns |-> columns, rows |-> rows]

\* pd.DataFrame()
EmptyFrame == Frame({}, <<>>)

\* DataFrame.empty: some axis has length 0
empty(d) == d.columns = {} \/ d.rows = <<>>

\* One st.write / st.info / st.warning / st.error / st.success call: the text
\* t and the numbers formatted into it.
Msg(t, a, b, c) == [t |-> t, a |-> a, b |-> b, c |-> c]

\* DataFrame.dropna(subset = subset)
dropna(d, subset) ==
    Frame(d.columns, SelectSeq(d.rows, LAMBDA r : \A c \in subset : ~isna(r[c])))

\* pd.to_numeric(x, errors = 'coerce') on one cell.  A column of a parquet
\* file has one type, so a column holds Booleans in every row or in none;
\* a Boolean column counts as numeric and comes back as it is.
to_numeric(x) ==
    CASE x.k = "num"     -> x
      [] x.k = "numtext" -> Num(x.v)
      [] x.k = "bool"    -> x
      [] OTHER           -> NaN

\* df[col] = pd.to_numeric(df[col], errors = 'coerce')
coerce(d, col) ==
    Frame(d.columns, [i \in DOMAIN d.rows |-> [d.rows[i] EXCEPT ![col] = to_numeric(@)]])

\* Series.abs() > limit on one float
AbsGreater(x, limit) == x.k = "num" /\ (x.v > limit \/ -x.v > limit)

\* Series == 0 on one float
IsZero(x) == x.k = "num" /\ x.v = 0

\* Series.describe()['min'] and ['max'] of a float column without NaN
ColMin(d, col) == CHOOSE m \in {d.rows[i][col].v : i \in DOMAIN d.rows} :
                      \A i \in DOMAIN d.rows : m <= d.rows[i][col].v
ColMax(d, col) == CHOOSE m \in {d.rows[i][col].v : i \in DOMAIN d.rows} :
                      \A i \in DOMAIN d.rows : m >= d.rows[i][col].v

\* DataFrame.head(n) on the rows
head(rows, n) == IF Len(rows) <= n THEN rows ELSE SubSeq(rows, 1, n)

(***************************************************************************)
(* The coordinate cleaner.  Both functions return the table, the messages   *)
(* they emit and whether an exception left them instead, [out, log, err].  *)
(***************************************************************************)
\* Series.describe() of a Boolean column has no 'min' entry: the lookup of
\* lines 116-117 raises KeyError.
NoMinMax(d, col) == \E i \in DOMAIN d.rows : d.rows[i][col].k = "bool"

\* Mutant: only the clearly wrong coordinates are dropped.
detect_and_fix_clearly_wrong_only(d, lat_col, lon_col, dataset_name) ==
    IF empty(d) THEN [out |-> d, log |-> <<>>, err |-> FALSE]
    ELSE IF NoMinMax(d, lat_col) \/ NoMinMax(d, lon_col)
    THEN [out |-> EmptyFrame, log |-> <<Msg("Analisis mendalam", 0, 0, 0)>>, err |-> TRUE]
    ELSE [out |-> Frame(d.columns, SelectSeq(d.rows, LAMBDA r :
                      ~(\/ AbsGreater(r[lat_col], 900) \/ AbsGreater(r[lon_col], 1800)
                        \/ IsZero(r[lat_col]) \/ IsZero(r[lon_col])))),
          log |-> <<Msg("Analisis mendalam", 0, 0, 0)>>, err |-> FALSE]

detect_and_fix_coordinate_issues(d, lat_col, lon_col, dataset_name) ==
    IF empty(d) THEN [out |-> d, log |-> <<>>, err |-> FALSE]
    ELSE IF NoMinMax(d, lat_col) \/ NoMinMax(d, lon_col)
    THEN [out |-> EmptyFrame, log |-> <<Msg("Analisis mendalam", 0, 0, 0)>>, err |-> TRUE]
    ELSE
    LET clearly_wrong == SelectSeq(d.rows, LAMBDA r :
                             \/ AbsGreater(r[lat_col], 900)
                             \/ AbsGreater(r[lon_col], 1800)
                             \/ IsZero(r[lat_col]) \/ IsZero(r[lon_col]))
        in_neighbor_countries == SelectSeq(d.rows, LAMBDA r :
                             is_in_forbidden_area(r[lat_col], r[lon_col]))
        sample == head(in_neighbor_countries, 5)
        valid_data == Frame(d.columns, SelectSeq(d.rows, LAMBDA r :
                             validate_indonesia_strict(r[lat_col], r[lon_col])))
        removed_count == Len(d.rows) - Len(valid_data.rows)
    IN  [out |-> valid_data, err |-> FALSE,
         log |-> <<Msg("Analisis mendalam", 0, 0, 0),
                   Msg("Latitude min max", ColMin(d, lat_col), ColMax(d, lat_col), 0),
                   Msg("Longitude min max", ColMin(d, lon_col), ColMax(d, lon_col), 0)>>
                 \o (IF Len(clearly_wrong) > 0
                     THEN <<Msg("koordinat yang jelas-jelas salah", Len(clearly_wrong), 0, 0)>>
                     ELSE <<>>)
                 \o (IF Len(in_neighbor_countries) > 0
                     THEN <<Msg("koordinat di negara tetangga",
                                Len(in_neighbor_countries), 0, 0)>>
                          \o [i \in DOMAIN sample |->
                                Msg("Lat Lon", sample[i][lat_col].v, sample[i][lon_col].v, 0)]
                     ELSE <<>>)
                 \o (IF removed_count > 0
                     THEN <<Msg("Diproses", Len(d.rows), Len(valid_data.rows), removed_count)>>
                     ELSE <<>>)]

\* Mutant: the presence of the coordinate columns is not tested; the column
\* lookup of dropna then fails for a table without them.
clean_and_validate_no_column_check(d, lat_col, lon_col, dataset_name) ==
    IF empty(d) THEN [out |-> d, log |-> <<Msg("Dataframe kosong", 0, 0, 0)>>, err |-> FALSE]
    ELSE IF lat_col \notin d.columns \/ lon_col \notin d.columns
    THEN [out |-> EmptyFrame, log |-> <<>>, err |-> TRUE]
    ELSE LET fixed == detect_and_fix_coordinate_issues(
                          dropna(coerce(coerce(dropna(d, {lat_col, lon_col}), lat_col),
                                        lon_col), {lat_col, lon_col}),
                          lat_col, lon_col, dataset_name)
         IN  [out |-> fixed.out, log |-> fixed.log, err |-> fixed.err]

clean_and_validate_coordinates_strict(d, lat_col, lon_col, dataset_name) ==
    IF empty(d)
    THEN [out |-> d, log |-> <<Msg("Dataframe kosong", 0, 0, 0)>>, err |-> FALSE]
    ELSE IF lat_col \notin d.columns \/ lon_col \notin d.columns
    THEN [out |-> EmptyFrame, log |-> <<Msg("Kolom tidak ditemukan", 0, 0, 0)>>,
          err |-> FALSE]
    ELSE
    LET df_clean1 == dropna(d, {lat_col, lon_col})
        df_clean2 == dropna(coerce(coerce(df_clean1, lat_col), lon_col),
                            {lat_col, lon_col})
        fixed == detect_and_fix_coordinate_issues(df_clean2, lat_col, lon_col,
                                                  dataset_name)
    IN  IF empty(df_clean1)
        THEN [out |-> df_clean1,
              log |-> <<Msg("Tidak ada data setelah dropna", 0, 0, 0)>>, err |-> FALSE]
        ELSE IF empty(df_clean2)
        THEN [out |-> df_clean2,
              log |-> <<Msg("Tidak ada data setelah konversi numeric", 0, 0, 0)>>,
              err |-> FALSE]
        ELSE [out |-> fixed.out,
              log |-> <<Msg("Memproses records awal", Len(d.rows), 0, 0)>> \o fixed.log,
              err |-> fixed.err]

(***************************************************************************)
(* Strings                                                                 *)
(***************************************************************************)
LowerCase == <<"a","b","c","d","e","f","g","h","i","j","k","l","m",
               "n","o","p","q","r","s","t","u","v","w","x","y","z">>
UpperCase == <<"A","B","C","D","E","F","G","H","I","J","K","L","M",
               "N","O","P","Q","R","S","T","U","V","W","X","Y","Z">>

\* str.upper() on one character
UpperChar(c) == IF \E i \in DOMAIN LowerCase : LowerCase[i] = c
                THEN UpperCase[CHOOSE i \in DOMAIN LowerCase : LowerCase[i] = c]
                ELSE c

\* Mutant: no case folding.
upper_identity(str) == str

\* str.upper()
upper(str) == [i \in DOMAIN str |-> UpperChar(str[i])]

IsSpace(c) == c = " "

\* str.strip(): the string from its first to its last non-blank character
strip(str) ==
    LET solid == {i \in DOMAIN str : ~IsSpace(str[i])}
    IN  IF solid = {} THEN <<>>
        ELSE SubSeq(str, CHOOSE i \in solid : \A j \in solid : i <= j,
                         CHOOSE i \in solid : \A j \in solid : i >= j)

\* str(x) and the f-string conversion of a cell that holds a name
format(x) == IF x.k = "none" THEN <<"N", "o", "n", "e">> ELSE x.v

\* Series.str.upper() on one cell: a missing value stays missing
str_upper(x) == IF x.k = "str" THEN Str(upper(x.v)) ELSE NoStr

(***************************************************************************)
(* DataFrame operations used by the pipeline                               *)
(***************************************************************************)
\* df[[cols]].copy(), for cols that are all present
select(d, cols) ==
    Frame(cols, [i \in DOMAIN d.rows |-> [c \in cols |-> d.rows[i][c]]])

\* df.rename(columns = m), m a function from old labels to new ones
NewLabel(m, c) == IF c \in DOMAIN m THEN m[c] ELSE c
rename(d, m) ==
    LET labels == {NewLabel(m, c) : c \in d.columns}
    IN  Frame(labels,
              [i \in DOMAIN d.rows |->
                  [n \in labels |->
                      d.rows[i][CHOOSE c \in d.columns : NewLabel(m, c) = n]]])

\* df[col] = values, a Series with one value per row
assign(d, col, values) ==
    Frame(d.columns \cup {col},
          [i \in DOMAIN d.rows |->
              [c \in d.columns \cup {col} |->
                  IF c = col THEN values[i] ELSE d.rows[i][c]]])

\* df[col] = value, one scalar for every row
assign_scalar(d, col, value) == assign(d, col, [i \in DOMAIN d.rows |-> value])

\* set(df['nama_restoran'].str.upper().dropna().unique())
MatchedNames(green) ==
    {str_upper(green.rows[i]["nama_restoran"]).v :
        i \in {j \in DOMAIN green.rows : green.rows[j]["nama_restoran"].k = "str"}}

\* Mutant: the names are compared without upper-casing the filtered side.
filter_matched_case_sensitive(d, green) ==
    Frame(d.columns,
          SelectSeq(d.rows, LAMBDA r :
              ~(/\ r["nama_restoran"].k = "str"
                /\ r["nama_restoran"].v \in MatchedNames(green))))

\* Mutant: only the first record with a matched name is removed.
filter_matched_first_only(d, green) ==
    LET hit == {i \in DOMAIN d.rows :
                   /\ str_upper(d.rows[i]["nama_restoran"]).k = "str"
                   /\ str_upper(d.rows[i]["nama_restoran"]).v \in MatchedNames(green)}
        first == IF hit = {} THEN 0 ELSE CHOOSE i \in hit : \A j \in hit : i <= j
    IN  Frame(d.columns,
              [i \in 1..(Len(d.rows) - (IF first = 0 THEN 0 ELSE 1)) |->
                  IF first = 0 \/ i < first THEN d.rows[i] ELSE d.rows[i + 1]])

\* df[~df['nama_restoran'].str.upper().isin(matched_names)]
filter_matched(d, green) ==
    Frame(d.columns,
          SelectSeq(d.rows, LAMBDA r :
              ~(/\ str_upper(r["nama_restoran"]).k = "str"
                /\ str_upper(r["nama_restoran"]).v \in MatchedNames(green))))

(***************************************************************************)
(* The pipeline.  A file is [exists, parquet, table]: whether the path     *)
(* exists, whether pd.read_parquet can read it, and the table it holds.    *)
(***************************************************************************)
PARQUET_FILES == <<"matched", "esb", "scraping">>

MatchedColumns == {"brand_pulau", "longitude_esb", "latitude_esb", "address_esb",
                   "address_pulau", "final_score", "match_confidence"}
EsbColumns == {"branchName", "brandName", "latitude", "longitude", "address",
               "cityName", "provinceName"}
ScrapingColumns == {"title", "address", "longitude", "latitude"}

\* Mutant: a blank branch is joined as well.
nama_restoran_esb_no_strip(row) ==
    IF ~isna(row["branchName"])
    THEN Str(format(row["brandName"]) \o <<" ", "-", " ">> \o format(row["branchName"]))
    ELSE row["brandName"]

\* The lambda of orange_data.apply: brand - branch, or the brand alone when
\* the branch is missing or blank
nama_restoran_esb(row) ==
    IF ~isna(row["branchName"]) /\ strip(format(row["branchName"])) # <<>>
    THEN Str(format(row["brandName"]) \o <<" ", "-", " ">> \o format(row["branchName"]))
    ELSE row["brandName"]

Tag(d, kategori, color, source) ==
    assign_scalar(assign_scalar(assign_scalar(d, "kategori", kategori), "color", color),
                  "source", source)

\* The body of the try block for the matched data (lines 228-245)
normalize_matched(d) ==
    Tag(rename(select(d, MatchedColumns),
               [c \in {"brand_pulau", "latitude_esb", "longitude_esb", "address_esb",
                       "address_pulau", "final_score", "match_confidence"} |->
                   CASE c = "brand_pulau"      -> "nama_restoran"
                     [] c = "latitude_esb"     -> "lat"
                     [] c = "longitude_esb"    -> "lon"
                     [] c = "address_esb"      -> "alamat_esb"
                     [] c = "address_pulau"    -> "alamat_pulau"
                     [] c = "final_score"      -> "similarity_score"
                     [] c = "match_confidence" -> "confidence"]),
        "Match", "green", "matched")

\* Lines 260-280: the ESB rows before the matched names are filtered out
normalize_esb(d) ==
    Tag(rename(assign(select(d, EsbColumns), "nama_restoran",
                      [i \in DOMAIN d.rows |->
                          nama_restoran_esb(select(d, EsbColumns).rows[i])]),
               [c \in {"latitude", "longitude", "address"} |->
                   CASE c = "latitude"  -> "lat"
                     [] c = "longitude" -> "lon"
                     [] c = "address"   -> "alamat"]),
        "Hanya ESB", "orange", "esb")

\* Lines 302-315: the scraping rows before the matched names are filtered out
normalize_scraping(d) ==
    Tag(rename(select(d, ScrapingColumns),
               [c \in {"title", "latitude", "longitude", "address"} |->
                   CASE c = "title"     -> "nama_restoran"
                     [] c = "latitude"  -> "lat"
                     [] c = "longitude" -> "lon"
                     [] c = "address"   -> "alamat"]),
        "Hanya Scraping", "blue", "scraping")

\* Lines 225-248.  [data, log]
process_matched(clean) ==
    IF empty(clean) THEN [data |-> EmptyFrame, log |-> <<>>]
    ELSE IF ~(MatchedColumns \subseteq clean.columns)
    THEN [data |-> EmptyFrame, log |-> <<Msg("Error processing matched data", 0, 0, 0)>>]
    ELSE [data |-> normalize_matched(clean), log |-> <<>>]

\* Series.str of a column of numbers raises AttributeError: the column has a
\* numeric dtype when it holds numbers and, besides them, only missing values.
NoStrAccessor(d, col) ==
    /\ \E i \in DOMAIN d.rows : d.rows[i][col].k = "number"
    /\ \A i \in DOMAIN d.rows : d.rows[i][col].k \in {"number", "none"}

\* Mutant: with an empty Match set every record is taken for a duplicate.
reconcile_empty_drops_all(data, green, side) ==
    IF empty(green) THEN [data |-> EmptyFrame, log |-> <<Msg(side, Len(data.rows), 0, 0)>>,
                          err |-> FALSE]
    ELSE IF NoStrAccessor(green, "nama_restoran") \/ NoStrAccessor(data, "nama_restoran")
    THEN [data |-> data, log |-> <<>>, err |-> TRUE]
    ELSE LET kept == filter_matched(data, green)
         IN  [data |-> kept, err |-> FALSE,
              log |-> <<Msg(side, Len(data.rows) - Len(kept.rows), 0, 0)>>]

\* Mutant: the reported count is the number of rows kept.
reconcile_reports_kept(data, green, side) ==
    IF empty(green) THEN [data |-> data, log |-> <<>>, err |-> FALSE]
    ELSE IF NoStrAccessor(green, "nama_restoran") \/ NoStrAccessor(data, "nama_restoran")
    THEN [data |-> data, log |-> <<>>, err |-> TRUE]
    ELSE LET kept == filter_matched(data, green)
         IN  [data |-> kept, log |-> <<Msg(side, Len(kept.rows), 0, 0)>>, err |-> FALSE]

\* Lines 283-287 and 318-322: the filter on the matched names and its
\* st.info message.  [data, log, err]: err when .str raises, which leaves
\* the set as it is before the filter.
reconcile(data, green, side) ==
    IF empty(green) THEN [data |-> data, log |-> <<>>, err |-> FALSE]
    ELSE IF NoStrAccessor(green, "nama_restoran") \/ NoStrAccessor(data, "nama_restoran")
    THEN [data |-> data, log |-> <<>>, err |-> TRUE]
    ELSE LET original_count == Len(data.rows)
             kept == filter_matched(data, green)
         IN  [data |-> kept, err |-> FALSE,
              log |-> <<Msg(side, original_count - Len(kept.rows), 0, 0)>>]

\* Lines 257-290.  [data, log, normal]: normal is orange_data as it is before
\* the filter.
process_esb(clean, green) ==
    IF empty(clean) THEN [data |-> EmptyFrame, log |-> <<>>, normal |-> EmptyFrame]
    ELSE IF ~(EsbColumns \subseteq clean.columns)
    THEN [data |-> EmptyFrame, log |-> <<Msg("Error processing ESB data", 0, 0, 0)>>,
          normal |-> EmptyFrame]
    ELSE LET normal == normalize_esb(clean)
             r == reconcile(normal, green, "ESB: Filtered matched records")
         IN  [data |-> r.data, normal |-> normal,
              log |-> IF r.err THEN <<Msg("Error processing ESB data", 0, 0, 0)>>
                      ELSE r.log]

\* Lines 299-325.  [data, log, normal]
process_scraping(clean, green) ==
    IF empty(clean) THEN [data |-> EmptyFrame, log |-> <<>>, normal |-> EmptyFrame]
    ELSE IF ~(ScrapingColumns \subseteq clean.columns)
    THEN [data |-> EmptyFrame, log |-> <<Msg("Error processing scraping data", 0, 0, 0)>>,
          normal |-> EmptyFrame]
    ELSE LET normal == normalize_scraping(clean)
             r == reconcile(normal, green, "Scraping: Filtered matched records")
         IN  [data |-> r.data, normal |-> normal,
              log |-> IF r.err THEN <<Msg("Error processing scraping data", 0, 0, 0)>>
                      ELSE r.log]

\* What the function hands back: the three tables, whether an exception left
\* it instead, the messages, and the two normalised sets before the filter.
Outcome(green, orange, blue, raised, log, esb_normal, scraping_normal) ==
    [green |-> green, orange |-> orange, blue |-> blue, raised |-> raised,
     log |-> log, esb_normal |-> esb_normal, scraping_normal |-> scraping_normal]

ThreeEmpty(log) ==
    Outcome(EmptyFrame, EmptyFrame, EmptyFrame, FALSE, log, EmptyFrame, EmptyFrame)

\* The messages of the file check (lines 197-203): one success per file found,
\* up to and including the error for the first one that is missing
CheckLog(fs) ==
    LET absent == {i \in DOMAIN PARQUET_FILES : ~fs[PARQUET_FILES[i]].exists}
        last == IF absent = {} THEN Len(PARQUET_FILES)
                ELSE CHOOSE i \in absent : \A j \in absent : i <= j
    IN  [i \in 1..last |->
            IF fs[PARQUET_FILES[i]].exists THEN Msg("file ada", i, 0, 0)
            ELSE Msg("FILE TIDAK DITEMUKAN", i, 0, 0)]

\* An exception leaves the function after the messages of log.
Raised(log) ==
    Outcome(EmptyFrame, EmptyFrame, EmptyFrame, TRUE, log, EmptyFrame, EmptyFrame)

\* Lines 327-331: the summary and the return.  o and b are the results of
\* process_esb and process_scraping.
final_summary(log, green, o, b) ==
    Outcome(green, o.data, b.data, FALSE,
            log \o b.log \o <<Msg("PROSES SELESAI", Len(green.rows), Len(o.data.rows),
                                  Len(b.data.rows))>>,
            o.normal, b.normal)

\* Lines 295-325, s the result of cleaning the scraping table
scraping_section(log, green, o, s) ==
    IF s.err THEN Raised(log \o s.log)
    ELSE final_summary(log \o s.log, green, o, process_scraping(s.out, green))

\* Lines 253-290, e the result of cleaning the ESB table
esb_section(fs, log, green, e) ==
    IF e.err THEN Raised(log \o e.log)
    ELSE LET o == process_esb(e.out, green)
         IN  scraping_section(log \o e.log \o o.log, green, o,
                 clean_and_validate_coordinates_strict(
                     fs["scraping"].table, "latitude", "longitude", "Scraping Data"))

\* Lines 221-248, m the result of cleaning the matched table
matched_section(fs, log, m) ==
    IF m.err THEN Raised(log \o m.log)
    ELSE LET g == process_matched(m.out)
         IN  esb_section(fs, log \o m.log \o g.log, g.data,
                 clean_and_validate_coordinates_strict(
                     fs["esb"].table, "latitude", "longitude", "ESB Data"))

\* The body of load_and_process_data_strict, without the cache
load_and_process_data_strict(fs) ==
    LET check == <<Msg("Memeriksa file", 0, 0, 0)>> \o CheckLog(fs)
    IN  IF \E k \in DOMAIN fs : ~fs[k].exists THEN ThreeEmpty(check)
        ELSE IF \E k \in DOMAIN fs : ~fs[k].parquet
        THEN ThreeEmpty(check \o <<Msg("Loading data", 0, 0, 0),
                                   Msg("Error loading files", 0, 0, 0)>>)
        ELSE matched_section(
                 fs,
                 check \o <<Msg("Loading data", 0, 0, 0),
                            Msg("Data loaded", Len(fs["matched"].table.rows),
                                Len(fs["esb"].table.rows),
                                Len(fs["scraping"].table.rows))>>,
                 clean_and_validate_coordinates_strict(
                     fs["matched"].table, "latitude_esb", "longitude_esb",
                     "Matched Data"))

(***************************************************************************)
(* st.cache_data around the pipeline: the function takes no argument, so   *)
(* the cache holds at most one entry, the value and the messages of the    *)
(* call that filled it.                                                    *)
(***************************************************************************)
NoCache == [full |-> FALSE, value |-> ThreeEmpty(<<>>)]

\* A call of the decorated function: [value, cache]
cached_load(c, fs) ==
    IF c.full THEN [value |-> c.value, cache |-> c]
    ELSE LET v == load_and_process_data_strict(fs)
         IN  [value |-> v,
              cache |-> IF v.raised THEN c ELSE [full |-> TRUE, value |-> v]]

\* What the caller receives, and what the model keeps of the call
Returned(v) == [called |-> TRUE, raised |-> v.raised,
                green |-> v.green, orange |-> v.orange, blue |-> v.blue]
NotCalled == [called |-> FALSE, raised |-> FALSE,
              green |-> EmptyFrame, orange |-> EmptyFrame, blue |-> EmptyFrame]
Normal(v) == [esb |-> v.esb_normal, scraping |-> v.scraping_normal]

(***************************************************************************)
(* Specification of the validator: one call on a point drawn from the      *)
(* values at and around every bound of Config and of the global range.     *)
(***************************************************************************)
\* How far around each bound the sampled coordinates go, in tenths of a degree.
Margin == 1

AllBoxes == {INDONESIA_STRICT_BOUNDS[r] : r \in DOMAIN INDONESIA_STRICT_BOUNDS}
                \cup {FORBIDDEN_AREAS[i] : i \in DOMAIN FORBIDDEN_AREAS}

LatEdges == {b.min_lat : b \in AllBoxes} \cup {b.max_lat : b \in AllBoxes}
                \cup {-900, 0, 900}
LonEdges == {b.min_lon : b \in AllBoxes} \cup {b.max_lon : b \in AllBoxes}
                \cup {-1800, 0, 1800}

GeoLats == {Num(e + d) : e \in LatEdges, d \in (-Margin)..Margin} \cup {NaN}
GeoLons == {Num(e + d) : e \in LonEdges, d \in (-Margin)..Margin} \cup {NaN}

GeoIdle == lat = NaN /\ lon = NaN /\ valid = "none"
CleanIdle == df = EmptyFrame /\ cleaned = [done |-> FALSE, out |-> EmptyFrame]
                /\ st_log = <<>>
PipeIdle == /\ files = <<>> /\ cache = NoCache /\ ret = NotCalled /\ run_log = <<>>
            /\ norm = Normal(ThreeEmpty(<<>>)) /\ pc = "off" /\ session = <<>>
            /\ invoked = FALSE

InitGeo == /\ lat \in GeoLats /\ lon \in GeoLons /\ valid = "none"
           /\ CleanIdle /\ PipeIdle

\* validate_indonesia_strict(lat, lon) is called and returns.
Validate ==
    /\ valid = "none"
    /\ valid' = IF validate_indonesia_strict(lat, lon) THEN "True" ELSE "False"
    /\ UNCHANGED <<lat, lon, df, cleaned, st_log, files, cache, ret, run_log,
                   norm, pc, session, invoked>>

NextGeo == Validate

SpecGeo == InitGeo /\ [][NextGeo]_vars

\* A point lies inside a box: closed on all four sides.
InsideBox(b, la, lo) ==
    /\ la.k = "num" /\ lo.k = "num"
    /\ b.min_lat <= la.v /\ la.v <= b.max_lat
    /\ b.min_lon <= lo.v /\ lo.v <= b.max_lon

InExclusion(la, lo) == \E i \in DOMAIN FORBIDDEN_AREAS : InsideBox(FORBIDDEN_AREAS[i], la, lo)
InInclusion(la, lo) ==
    \E r \in DOMAIN INDONESIA_STRICT_BOUNDS : InsideBox(INDONESIA_STRICT_BOUNDS[r], la, lo)

\* C1: a point inside any exclusion box is rejected, whether or not it is
\* also inside an inclusion box.
C1_ExclusionDominance ==
    (valid # "none" /\ InExclusion(lat, lon)) => valid = "False"

\* The validator has rejected a point that is inside an exclusion box and
\* inside an inclusion box, on the closed edge of the exclusion box.
C1_Witness ==
    /\ valid = "False" /\ InInclusion(lat, lon)
    /\ \E i \in DOMAIN FORBIDDEN_AREAS :
          /\ InsideBox(FORBIDDEN_AREAS[i], lat, lon)
          /\ lon.v = FORBIDDEN_AREAS[i].max_lon

\* C2: the validator accepts exactly the points whose coordinates are both
\* present, in the global range, inside no exclusion box and inside at least
\* one inclusion box.
C2_AcceptExactly ==
    valid # "none" =>
        (valid = "True" <=>
            /\ lat.k = "num" /\ lon.k = "num"
            /\ -900 <= lat.v /\ lat.v <= 900
            /\ -1800 <= lon.v /\ lon.v <= 1800
            /\ ~InExclusion(lat, lon)
            /\ InInclusion(lat, lon))

\* The validator has accepted a point on the closed northern edge of an
\* inclusion box.
C2_Witness == valid = "True" /\ InInclusion(lat, lon) /\ ~InExclusion(lat, lon)
                /\ \E r \in DOMAIN INDONESIA_STRICT_BOUNDS :
                      lat.v = INDONESIA_STRICT_BOUNDS[r].max_lat

(***************************************************************************)
(* Specification of the cleaner: one call on a table of at most            *)
(* MaxCleanRows rows, with or without its latitude column.                 *)
(***************************************************************************)
MaxCleanRows == 2

\* Raw latitude cells: missing, non-numeric text, numeric text, zero, inside
\* an exclusion box, outside the global range.
CleanLats == {None, Text, NumText(-62), Num(0), Num(13), Num(910)}
\* Raw longitude cells: missing, zero, Sumatera, Jawa, Singapore, out of range.
CleanLons == {None, Num(0), Num(1010), Num(1068), Num(1038), Num(1810)}

CleanRows == {[latitude |-> a, longitude |-> b, title |-> Str(<<"w">>)] :
                  a \in CleanLats, b \in CleanLons}

\* The row without the columns outside cols
Restrict(r, cols) == [c \in cols |-> r[c]]

\* DataFrame.drop(columns = dropped)
DropColumns(d, dropped) ==
    Frame(d.columns \ dropped,
          [i \in DOMAIN d.rows |-> Restrict(d.rows[i], d.columns \ dropped)])

InitClean ==
    /\ \E n \in 0..MaxCleanRows : \E rows \in [1..n -> CleanRows] :
       \E dropped \in {{}, {"latitude"}} :
          df = DropColumns(Frame({"latitude", "longitude", "title"}, rows), dropped)
    /\ cleaned = [done |-> FALSE, out |-> EmptyFrame]
    /\ st_log = <<>>
    /\ GeoIdle /\ PipeIdle

\* clean_and_validate_coordinates_strict(df, 'latitude', 'longitude', ...) is
\* called and returns.
Clean ==
    /\ ~cleaned.done
    /\ LET r == clean_and_validate_coordinates_strict(df, "latitude", "longitude",
                                                      "Scraping Data")
       IN  /\ ~r.err
           /\ cleaned' = [done |-> TRUE, out |-> r.out]
           /\ st_log' = r.log
    /\ UNCHANGED <<lat, lon, valid, df, files, cache, ret, run_log, norm, pc,
                   session, invoked>>

NextClean == Clean

SpecClean == InitClean /\ [][NextClean]_vars

\* The messages of a log with text t
Reported(log, t) == SelectSeq(log, LAMBDA m : m.t = t)

\* C6: no row whose latitude or longitude is exactly 0 is among the rows the
\* cleaner returns.
C6_ZeroNeverReturned ==
    cleaned.done =>
        \A i \in DOMAIN cleaned.out.rows :
            /\ ~(cleaned.out.rows[i]["latitude"] = Num(0))
            /\ ~(cleaned.out.rows[i]["longitude"] = Num(0))

\* C10: the cleaner's reported input count is the number of rows it was
\* given, the reported output count is the number of rows it returns, and
\* input count = output count + removed count.  Stated for the calls that
\* report all three numbers.
C10_SummaryConsistent ==
    (/\ cleaned.done
     /\ Reported(st_log, "Memproses records awal") # <<>>
     /\ Reported(st_log, "Diproses") # <<>>) =>
        LET awal == Reported(st_log, "Memproses records awal")[1]
            done == Reported(st_log, "Diproses")[1]
        IN  /\ awal.a = Len(df.rows)
            /\ done.b = Len(cleaned.out.rows)
            /\ awal.a = done.b + done.c

(***************************************************************************)
(* Specification of the pipeline: one call of load_and_process_data_strict *)
(* on three readable files that hold at most MaxRows rows together, of     *)
(* which at most one table lacks a required column.                        *)
(***************************************************************************)
MaxRows == 3

\* Jakarta, which the validator accepts, and Singapore, inside an exclusion box
Jakarta == <<-62, 1068>>
Singapore == <<13, 1038>>

\* Names of the matched table: mixed case, trailing blank, brand - branch,
\* none, a number
MatchedNameVals == {Str(<<"W", "p">>), Str(<<"w", "p", " ">>),
                    Str(<<"W", "P", " ", "-", " ", "X">>), NoStr, Number(<<"7">>)}
\* Branches of the primary registry: none, blank, present
BranchVals == {NoStr, Str(<<" ">>), Str(<<"x">>)}
\* Titles of the crawled table, one of them a number
TitleVals == {Str(<<"w", "P">>), Str(<<"w", "p", " ">>), NoStr, Number(<<"7">>)}

MatchedRow(n, pt) ==
    [brand_pulau |-> n, longitude_esb |-> Num(pt[2]), latitude_esb |-> Num(pt[1]),
     address_esb |-> Str(<<"a">>), address_pulau |-> Str(<<"a">>),
     final_score |-> Num(9), match_confidence |-> Str(<<"h">>)]

EsbRow(n, br, pt) ==
    [branchName |-> br, brandName |-> n, latitude |-> Num(pt[1]),
     longitude |-> Num(pt[2]), address |-> Str(<<"a">>), cityName |-> Str(<<"c">>),
     provinceName |-> Str(<<"p">>)]

ScrapingRow(n, pt) ==
    [title |-> n, address |-> Str(<<"a">>), longitude |-> Num(pt[2]),
     latitude |-> Num(pt[1])]

\* The rows of the inputs: every name at an accepted point, one name per
\* table at a rejected point as well; in the primary registry also a brand
\* that is a number, without and with a branch.
MatchedRows == {MatchedRow(n, Jakarta) : n \in MatchedNameVals}
                  \cup {MatchedRow(Str(<<"W", "p">>), Singapore)}
EsbRows == {EsbRow(Str(<<"w", "P">>), br, Jakarta) : br \in BranchVals}
              \cup {EsbRow(Str(<<"w", "P">>), NoStr, Singapore)}
              \cup {EsbRow(Number(<<"7">>), br, Jakarta) : br \in {NoStr, Str(<<"x">>)}}
ScrapingRows == {ScrapingRow(n, Jakarta) : n \in TitleVals}
                   \cup {ScrapingRow(Str(<<"w", "P">>), Singapore)}

\* The columns a table may lack: per source, a coordinate column and another
\* required column; at most one table is defective.
NoDefect == [matched |-> {}, esb |-> {}, scraping |-> {}]
SchemaCases ==
    {NoDefect}
    \cup {[NoDefect EXCEPT !["matched"] = {c}] : c \in {"latitude_esb", "final_score"}}
    \cup {[NoDefect EXCEPT !["esb"] = {c}] : c \in {"longitude", "cityName"}}
    \cup {[NoDefect EXCEPT !["scraping"] = {c}] : c \in {"latitude", "title"}}

File(table) == [exists |-> TRUE, parquet |-> TRUE, table |-> table]
\* A path that does not exist, and a file pd.read_parquet cannot read
Missing == [exists |-> FALSE, parquet |-> FALSE, table |-> EmptyFrame]
Corrupt == [exists |-> TRUE, parquet |-> FALSE, table |-> EmptyFrame]

\* One-row tables: a row the validator accepts, a row it rejects
SmallTables(k) ==
    CASE k = "matched" ->
            {Frame(MatchedColumns, <<r>>) :
                r \in {x \in MatchedRows : x["brand_pulau"] = Str(<<"W", "p">>)}}
      [] k = "esb" ->
            {Frame(EsbColumns, <<r>>) : r \in {x \in EsbRows : x["branchName"] = NoStr}}
      [] k = "scraping" ->
            {Frame(ScrapingColumns, <<r>>) :
                r \in {x \in ScrapingRows : x["title"] = Str(<<"w", "P">>)}}

\* A crawled table whose latitude column is Boolean: the cleaner raises on it.
BooleanTables(k) ==
    IF k = "scraping"
    THEN {Frame(ScrapingColumns,
                <<[ScrapingRow(Str(<<"w", "P">>), Jakarta) EXCEPT !["latitude"] = Bool(TRUE)]>>)}
    ELSE {}

\* What a path can hold in the runs where files come and go
SmallFiles(k) == {Missing, Corrupt} \cup {File(t) : t \in SmallTables(k)}
                    \cup {File(t) : t \in BooleanTables(k)}

SessionIdle == session = <<>> /\ invoked = FALSE

\* A column of a parquet file has one type: it does not hold both strings and
\* numbers.
Typed(rows, col) ==
    ~(\E i \in DOMAIN rows : rows[i][col].k = "str"
        /\ \E j \in DOMAIN rows : rows[j][col].k = "number")

\* All three files can be read.
ReadableInputs ==
       \E a \in 0..MaxRows : \E b \in 0..(MaxRows - a) : \E c \in 0..(MaxRows - a - b) :
       \E mr \in [1..a -> MatchedRows] : \E er \in [1..b -> EsbRows] :
       \E sr \in [1..c -> ScrapingRows] : \E defect \in SchemaCases :
          /\ Typed(mr, "brand_pulau") /\ Typed(er, "brandName") /\ Typed(sr, "title")
          /\ files = [matched  |-> File(DropColumns(Frame(MatchedColumns, mr),
                                                    defect["matched"])),
                      esb      |-> File(DropColumns(Frame(EsbColumns, er),
                                                    defect["esb"])),
                      scraping |-> File(DropColumns(Frame(ScrapingColumns, sr),
                                                    defect["scraping"]))]

\* Some file is missing or unreadable.
UnavailableInputs ==
    \E m \in SmallFiles("matched") : \E e \in SmallFiles("esb") :
    \E sc \in SmallFiles("scraping") :
        /\ \E f \in {m, e, sc} : ~f.parquet
        /\ files = [matched |-> m, esb |-> e, scraping |-> sc]

InitPipe ==
    /\ (ReadableInputs \/ UnavailableInputs)
    /\ cache = NoCache /\ ret = NotCalled /\ run_log = <<>>
    /\ norm = Normal(ThreeEmpty(<<>>))
    /\ pc = "call"
    /\ GeoIdle /\ CleanIdle /\ SessionIdle

\* load_and_process_data_strict() is called, with the cache empty, and returns
\* or raises.
RunPipeline ==
    /\ pc = "call"
    /\ LET r == cached_load(cache, files)
       IN  /\ ret' = Returned(r.value)
           /\ run_log' = r.value.log
           /\ norm' = Normal(r.value)
           /\ cache' = r.cache
    /\ pc' = "done"
    /\ UNCHANGED <<lat, lon, valid, df, cleaned, st_log, files, session, invoked>>

NextPipe == RunPipeline

SpecPipe == InitPipe /\ [][NextPipe]_vars

\* Two characters are the same letter in either case, or the same character.
CasePair(x, y) ==
    \/ x = y
    \/ \E i \in DOMAIN LowerCase :
          \/ (x = LowerCase[i] /\ y = UpperCase[i])
          \/ (x = UpperCase[i] /\ y = LowerCase[i])

\* Two strings differ in nothing but the case of their letters.
SameButCase(x, y) ==
    Len(x) = Len(y) /\ \A i \in DOMAIN x : CasePair(x[i], y[i])

\* The names present in a normalised table
NamesOf(d) == {d.rows[i]["nama_restoran"].v :
                  i \in {j \in DOMAIN d.rows : d.rows[j]["nama_restoran"].k = "str"}}

\* The name of a row equals the name of some row of green, letter case aside.
NameMatched(r, green) ==
    /\ r["nama_restoran"].k = "str"
    /\ \E n \in NamesOf(green) : SameButCase(r["nama_restoran"].v, n)

Completed == pc = "done" /\ ret.called /\ ~ret.raised

\* C3: after every run, no name of the returned Match set equals, letter case
\* aside, a name of the returned ESB-only set or of the returned
\* scraping-only set.
C3_Disjoint ==
    Completed =>
        \A n \in NamesOf(ret.green) :
            /\ \A o \in NamesOf(ret.orange) : ~SameButCase(n, o)
            /\ \A b \in NamesOf(ret.blue) : ~SameButCase(n, b)

\* A run whose filter removed an ESB row and kept another one, next to a
\* non-empty Match set.
C3_Witness ==
    /\ Completed /\ ~empty(ret.green) /\ ~empty(ret.orange)
    /\ Len(ret.orange.rows) < Len(norm.esb.rows)

\* The count reported for one side, as a sequence of at most one number
ReportedRemoved(side) == [i \in DOMAIN Reported(run_log, side) |->
                             Reported(run_log, side)[i].a]

\* The cardinality statement for one side: normal is the set before the
\* filter, kept the returned one.
Cardinality_Side(normal, kept, side) ==
    LET matching == {i \in DOMAIN normal.rows : NameMatched(normal.rows[i], ret.green)}
    IN  IF ReportedRemoved(side) # <<>>
        THEN /\ Len(kept.rows) = Len(normal.rows) - ReportedRemoved(side)[1]
             /\ ReportedRemoved(side)[1] = Cardinality(matching)
        ELSE /\ Len(kept.rows) = Len(normal.rows)
             /\ matching = {}

\* C4: on each side the filtered set has the size of the normalised set minus
\* the reported removed count, and that count is the number of records whose
\* name, letter case aside, is a name of the Match set.  When the code
\* reports no count (the Match set is empty) nothing is removed and no record
\* matches.
C4_Cardinality ==
    Completed =>
        /\ Cardinality_Side(norm.esb, ret.orange, "ESB: Filtered matched records")
        /\ Cardinality_Side(norm.scraping, ret.blue, "Scraping: Filtered matched records")

\* A run that reported two removed ESB records.
C4_Witness ==
    /\ Completed
    /\ ReportedRemoved("ESB: Filtered matched records") = <<2>>
    /\ Len(norm.esb.rows) = 2 /\ empty(ret.orange)

\* C5: a record is removed exactly when its name equals the name of some
\* matched record up to letter case; every other record is kept, in order,
\* also one that differs from a matched name only by a blank.
C5_RemovedIffSameButCase ==
    Completed =>
        /\ ret.orange.rows =
              SelectSeq(norm.esb.rows, LAMBDA r : ~NameMatched(r, ret.green))
        /\ ret.blue.rows =
              SelectSeq(norm.scraping.rows, LAMBDA r : ~NameMatched(r, ret.green))

\* A run with the matched name "Wp" that removed the title "wP" and kept the
\* title "wp " with its trailing blank.
C5_Witness ==
    /\ Completed
    /\ NamesOf(ret.green) = {<<"W", "p">>}
    /\ NamesOf(norm.scraping) = {<<"w", "P">>, <<"w", "p", " ">>}
    /\ NamesOf(ret.blue) = {<<"w", "p", " ">>}

Required(k) == CASE k = "matched"  -> MatchedColumns
                 [] k = "esb"      -> EsbColumns
                 [] k = "scraping" -> ScrapingColumns

OutputOf(r, k) == CASE k = "matched"  -> r.green
                    [] k = "esb"      -> r.orange
                    [] k = "scraping" -> r.blue

LacksColumn(k) == ~(Required(k) \subseteq files[k].table.columns)

\* C7: when a located table lacks a required column the call does not raise,
\* the output set of that dataset is empty, and the three returned sets are
\* those of the same call with that table empty.
C7_SchemaErrorContained ==
    pc = "done" =>
        \A k \in DOMAIN files :
            LacksColumn(k) =>
                LET alt == load_and_process_data_strict(
                               [files EXCEPT ![k].table = Frame(Required(k), <<>>)])
                IN  /\ ret.called /\ ~ret.raised
                    /\ empty(OutputOf(ret, k))
                    /\ ret.green = alt.green
                    /\ ret.orange = alt.orange
                    /\ ret.blue = alt.blue

\* A run in which the ESB table has rows but lacks a column, while the Match
\* set and the scraping-only set come out non-empty.
C7_Witness ==
    /\ pc = "done" /\ LacksColumn("esb") /\ files["esb"].table.rows # <<>>
    /\ ~empty(ret.green) /\ ~empty(ret.blue)

\* The three sets a call returns when every file exists and every row of
\* every table is rejected by the validator
AllRowsDropped ==
    load_and_process_data_strict(
        [k \in {"matched", "esb", "scraping"} |->
            File(CHOOSE t \in SmallTables(k) :
                    \A i \in DOMAIN t.rows :
                        ~validate_indonesia_strict(
                            t.rows[i][IF k = "matched" THEN "latitude_esb" ELSE "latitude"],
                            t.rows[i][IF k = "matched" THEN "longitude_esb"
                                      ELSE "longitude"]))])

\* C8: what the caller receives when a file is missing differs from what it
\* receives when all files exist and validation drops every row.
C8_MissingSourceDistinct ==
    (pc = "done" /\ \E k \in DOMAIN files : ~files[k].exists) =>
        <<ret.raised, ret.green, ret.orange, ret.blue>>
            # <<AllRowsDropped.raised, AllRowsDropped.green, AllRowsDropped.orange,
                AllRowsDropped.blue>>

\* The rows of an input table that lie inside an inclusion box and inside no
\* exclusion box
AcceptedRows(k) ==
    LET la == IF k = "matched" THEN "latitude_esb" ELSE "latitude"
        lo == IF k = "matched" THEN "longitude_esb" ELSE "longitude"
    IN  IF LacksColumn(k) THEN <<>>
        ELSE SelectSeq(files[k].table.rows,
                       LAMBDA r : InInclusion(r[la], r[lo]) /\ ~InExclusion(r[la], r[lo]))

\* The three tables were loaded.
Loaded == \A k \in DOMAIN files : files[k].exists /\ files[k].parquet

\* C11: when the three tables were loaded and the returned Match set is
\* empty, the returned ESB-only and scraping-only sets are the normalised,
\* validated sets with no record removed: one record per accepted input row,
\* in order, and no removed count other than 0 is reported for either side.
C11_EmptyMatchedPassThrough ==
    (Completed /\ Loaded /\ empty(ret.green)) =>
        /\ ret.orange = norm.esb /\ ret.blue = norm.scraping
        /\ Len(ret.orange.rows) = Len(AcceptedRows("esb"))
        /\ Len(ret.blue.rows) = Len(AcceptedRows("scraping"))
        /\ \A i \in DOMAIN ret.blue.rows :
              ret.blue.rows[i]["nama_restoran"] = AcceptedRows("scraping")[i]["title"]
        /\ \A side \in {"ESB: Filtered matched records",
                         "Scraping: Filtered matched records"} :
              \A i \in DOMAIN ReportedRemoved(side) : ReportedRemoved(side)[i] = 0

\* A run whose matched table holds the name "Wp" in a row the validator
\* rejects: the Match set is empty and the title "wP" is returned.
C11_Witness ==
    /\ Completed /\ Loaded /\ empty(ret.green)
    /\ files["matched"].table.rows # <<>>
    /\ \E i \in DOMAIN files["matched"].table.rows :
          files["matched"].table.rows[i]["brand_pulau"] = Str(<<"W", "p">>)
    /\ <<"w", "P">> \in NamesOf(ret.blue)
    /\ ~empty(ret.orange)

\* The idempotence statement for one side: normal is the set before the
\* filter, kept the returned one, side the text of the count message.  A
\* side without a validated record has no reconciliation step.
Idempotent_Side(normal, kept, side) ==
    LET first == reconcile(normal, ret.green, side)
        second == reconcile(kept, ret.green, side)
    IN  IF empty(normal) THEN empty(kept) /\ ReportedRemoved(side) = <<>>
        ELSE /\ first.data = kept
             /\ ~first.err =>
                   [i \in DOMAIN first.log |-> first.log[i].a] = ReportedRemoved(side)
             /\ second.data = kept
             /\ \A i \in DOMAIN second.log : second.log[i].a = 0

\* C12: reconciling the same Match set and the same normalised set again
\* gives the set and the removed count the run gave, and reconciling the
\* returned set against the same Match set gives the returned set back with
\* a removed count of 0.
C12_ReconcileIdempotent ==
    (Completed /\ Loaded) =>
        /\ Idempotent_Side(norm.esb, ret.orange, "ESB: Filtered matched records")
        /\ Idempotent_Side(norm.scraping, ret.blue, "Scraping: Filtered matched records")

\* A run that removed two ESB records with the same matched name.
C12_Witness ==
    /\ Completed /\ Loaded /\ ~empty(ret.green)
    /\ Len(norm.esb.rows) - Len(ret.orange.rows) = 2
    /\ NamesOf(norm.esb) = {<<"w", "P">>}

\* The canonical name of a primary-registry record, from its brand and
\* branch fields
CanonicalName(brand, branch) ==
    IF branch.k = "str" /\ \E i \in DOMAIN branch.v : branch.v[i] # " "
    THEN Str(brand.v \o <<" ", "-", " ">> \o branch.v)
    ELSE brand

CanonicalMatched(r, green) ==
    LET n == CanonicalName(r["brandName"], r["branchName"])
    IN  n.k = "str" /\ \E g \in NamesOf(green) : SameButCase(n.v, g)

\* C13: the name of every normalised primary-registry record is its brand
\* joined to its branch with " - " when the branch is present and not blank,
\* and its brand alone otherwise; the records removed by reconciliation are
\* those whose name so formed equals a matched name, letter case aside.
C13_NameSynthesis ==
    (Completed /\ Loaded) =>
        /\ Len(norm.esb.rows) = Len(AcceptedRows("esb"))
        /\ \A i \in DOMAIN norm.esb.rows :
              norm.esb.rows[i]["nama_restoran"] =
                  CanonicalName(AcceptedRows("esb")[i]["brandName"],
                                AcceptedRows("esb")[i]["branchName"])
        /\ [i \in DOMAIN ret.orange.rows |-> ret.orange.rows[i]["nama_restoran"]] =
              LET kept == SelectSeq(AcceptedRows("esb"),
                                    LAMBDA r : ~CanonicalMatched(r, ret.green))
              IN  [i \in DOMAIN kept |->
                      CanonicalName(kept[i]["brandName"], kept[i]["branchName"])]

\* A run with the matched name "WP - X" that removed the record of brand
\* "wP" and branch "x" and kept, under the name "wP", a record of the same
\* brand with a blank branch.
C13_Witness ==
    /\ Completed /\ Loaded
    /\ NamesOf(ret.green) = {<<"W", "P", " ", "-", " ", "X">>}
    /\ NamesOf(norm.esb) = {<<"w", "P", " ", "-", " ", "x">>, <<"w", "P">>}
    /\ NamesOf(ret.orange) = {<<"w", "P">>}
    /\ \E i \in DOMAIN ret.orange.rows : ret.orange.rows[i]["branchName"] = Str(<<" ">>)

\* Every record of a returned set lies inside an inclusion box and inside no
\* exclusion box.
InRegion(d) ==
    \A i \in DOMAIN d.rows :
        /\ InInclusion(d.rows[i]["lat"], d.rows[i]["lon"])
        /\ ~InExclusion(d.rows[i]["lat"], d.rows[i]["lon"])

\* C15: after every run that returns, also one in which the processing of a
\* dataset failed part-way, every record of each of the three returned sets
\* has coordinates inside at least one inclusion box and inside no exclusion
\* box.
C15_RegionInvariant ==
    (pc = "done" /\ ret.called /\ ~ret.raised) =>
        InRegion(ret.green) /\ InRegion(ret.orange) /\ InRegion(ret.blue)

\* A run in which the name filter of the scraping data failed after the set
\* was normalised, which returned that set and a Match set, and whose ESB
\* table held a row the validator rejects.
C15_Witness ==
    /\ Completed /\ Loaded
    /\ Reported(run_log, "Error processing scraping data") # <<>>
    /\ ~empty(ret.blue) /\ ~empty(ret.green)
    /\ Len(AcceptedRows("esb")) < Len(files["esb"].table.rows)

(***************************************************************************)
(* Specification of a session: main() is run again and again by Streamlit  *)
(* while files come and go, the cache entry expires and sessions start     *)
(* over.  A script run reads the file system twice, in check_default_files *)
(* and inside load_and_process_data_strict, so it is two steps: MainStart  *)
(* up to the button, MainLoad from the call of the pipeline on.  pc is     *)
(* where the last run of main() returned, or "load" between the two steps. *)
(***************************************************************************)
Kinds == {"matched", "esb", "scraping"}

Init ==
    /\ files \in [Kinds -> UNION {SmallFiles(k) : k \in Kinds}]
    /\ \A k \in Kinds : files[k] \in SmallFiles(k)
    /\ cache = NoCache /\ ret = NotCalled /\ run_log = <<>>
    /\ norm = Normal(ThreeEmpty(<<>>))
    /\ pc = "start"
    /\ session = <<>>
    /\ invoked = FALSE
    /\ GeoIdle /\ CleanIdle

\* Lines 520-527: the defaults of the keys the session does not hold yet.  A
\* value of st.session_state is [flag, data]: the Boolean of data_loaded, the
\* DataFrame of the other keys.
SessionDefaults(ss) ==
    [key \in {"data_loaded", "green_data", "orange_data", "blue_data"} |->
        IF key \in DOMAIN ss THEN ss[key] ELSE [flag |-> FALSE, data |-> EmptyFrame]]

\* check_default_files(): the files found
check_default_files(fs) == {k \in DOMAIN fs : fs[k].exists}

\* Mutant: the button loads again in a session that has loaded.
MainStart_loads_again(clicked) ==
    /\ pc # "load"
    /\ session' = SessionDefaults(session)
    /\ pc' = IF Cardinality(check_default_files(files)) < 3 THEN "incomplete"
             ELSE IF clicked THEN "load"
             ELSE IF session'["data_loaded"].flag THEN "shown"
             ELSE "waiting"
    /\ UNCHANGED <<lat, lon, valid, df, cleaned, st_log, files, cache, ret, run_log,
                   norm, invoked>>

\* Lines 507-561 and 582-584 of main(): up to the button.  clicked: the user
\* pressed the load button in this run.
MainStart(clicked) ==
    /\ pc # "load"
    /\ session' = SessionDefaults(session)
    /\ pc' = IF Cardinality(check_default_files(files)) < 3 THEN "incomplete"
             ELSE IF session'["data_loaded"].flag THEN "shown"
             ELSE IF clicked THEN "load"
             ELSE "waiting"
    /\ UNCHANGED <<lat, lon, valid, df, cleaned, st_log, files, cache, ret, run_log,
                   norm, invoked>>

\* Mutant: the flag is left as it was.
StoreLoaded_no_flag(ss, v) ==
    [ss EXCEPT !["green_data"] = [flag |-> FALSE, data |-> v.green],
               !["orange_data"] = [flag |-> FALSE, data |-> v.orange],
               !["blue_data"] = [flag |-> FALSE, data |-> v.blue]]

\* Lines 566-569: the session after a call that returned v
StoreLoaded(ss, v) ==
    [ss EXCEPT !["green_data"] = [flag |-> FALSE, data |-> v.green],
               !["orange_data"] = [flag |-> FALSE, data |-> v.orange],
               !["blue_data"] = [flag |-> FALSE, data |-> v.blue],
               !["data_loaded"] = [flag |-> TRUE, data |-> EmptyFrame]]

\* Lines 562-581 and the rest of main(): the pipeline is called through the
\* cache; its result is stored in the session, or the exception is reported.
MainLoad ==
    /\ pc = "load"
    /\ LET r == cached_load(cache, files)
       IN  /\ ret' = Returned(r.value)
           /\ run_log' = r.value.log
           /\ norm' = Normal(r.value)
           /\ cache' = r.cache
           /\ IF r.value.raised
              THEN pc' = "failed" /\ UNCHANGED <<session, invoked>>
              ELSE /\ session' = StoreLoaded(session, r.value)
                   /\ invoked' = TRUE
                   /\ pc' = "shown"
    /\ UNCHANGED <<lat, lon, valid, df, cleaned, st_log, files>>

\* The environment: a file is deleted.
RemoveFile(k) ==
    /\ files[k].exists
    /\ files' = [files EXCEPT ![k] = Missing]
    /\ UNCHANGED <<lat, lon, valid, df, cleaned, st_log, cache, ret, run_log, norm,
                   pc, session, invoked>>

\* The environment: a file is written or replaced.
PutFile(k, f) ==
    /\ f.exists /\ f # files[k]
    /\ files' = [files EXCEPT ![k] = f]
    /\ UNCHANGED <<lat, lon, valid, df, cleaned, st_log, cache, ret, run_log, norm,
                   pc, session, invoked>>

\* The cache entry reaches its ttl of 3600 seconds.
CacheExpire ==
    /\ cache.full
    /\ cache' = NoCache
    /\ UNCHANGED <<lat, lon, valid, df, cleaned, st_log, files, ret, run_log, norm,
                   pc, session, invoked>>

\* The page is opened anew: a session with an empty st.session_state.
NewSession ==
    /\ pc \notin {"start", "load"}
    /\ session' = <<>> /\ invoked' = FALSE /\ pc' = "start"
    /\ ret' = NotCalled /\ run_log' = <<>> /\ norm' = Normal(ThreeEmpty(<<>>))
    /\ UNCHANGED <<lat, lon, valid, df, cleaned, st_log, files, cache>>

Next ==
    \/ \E clicked \in BOOLEAN : MainStart(clicked)
    \/ MainLoad
    \/ \E k \in Kinds : RemoveFile(k)
    \/ \E k \in Kinds : \E f \in SmallFiles(k) : PutFile(k, f)
    \/ CacheExpire
    \/ NewSession

Spec == Init /\ [][Next]_vars

\* The value of a session key, or the default when main() has not set it yet
data_loaded == "data_loaded" \in DOMAIN session /\ session["data_loaded"].flag

SessionSets ==
    IF DOMAIN session = {} THEN <<EmptyFrame, EmptyFrame, EmptyFrame>>
    ELSE <<session["green_data"].data, session["orange_data"].data,
           session["blue_data"].data>>

\* C9: in every session state, the flag data_loaded tells a session whose
\* pipeline call has completed from one whose pipeline was not invoked, also
\* when the three stored sets are empty in both.
C9_EmptyRunDistinguishable == invoked <=> data_loaded

\* The pipeline has run in this session and left three empty sets.
C9_Witness ==
    /\ invoked /\ data_loaded
    /\ SessionSets = <<EmptyFrame, EmptyFrame, EmptyFrame>>
    /\ \A k \in Kinds : files[k].parquet

\* C14: every call of the pipeline returns the result computed from the
\* tables the files hold when it is called, so a memoised result is served
\* only for the tables it was computed from.
C14_MemoizationSafe ==
    [][(pc = "load" /\ pc' # "load") =>
          ret' = Returned(load_and_process_data_strict(files))]_vars

\* The three sets a call of this session returned, if one returned
LoadStateInv ==
    /\ data_loaded => (/\ ret.called /\ ~ret.raised
                       /\ SessionSets = <<ret.green, ret.orange, ret.blue>>)
    /\ ~data_loaded => SessionSets = <<EmptyFrame, EmptyFrame, EmptyFrame>>
    /\ (ret.called /\ ret.raised) => ~data_loaded

\* A step within one session: a call that raises leaves the flag and the
\* stored sets as they were; once the flag is set it stays set, the stored
\* sets stay, and the pipeline is not called again.
LoadStateStep ==
    /\ (pc = "load" /\ ret'.raised) =>
          (~data_loaded' /\ SessionSets' = SessionSets)
    /\ (data_loaded /\ session' # <<>>) =>
          (/\ data_loaded' /\ SessionSets' = SessionSets
           /\ pc # "load" /\ pc' # "load" /\ ret' = ret)

\* C16: data_loaded is true only if the three stored sets are the sets one
\* completed call of the pipeline returned; a call that raises leaves
\* data_loaded false and the stored sets empty; once data_loaded is true it
\* stays true for the session and the pipeline is not called again in it.
C16_LoadState == []LoadStateInv /\ [][LoadStateStep]_vars

\* A session whose call of the pipeline raised.
C16_Witness ==
    /\ pc = "failed" /\ ret.called /\ ret.raised
    /\ session # <<>> /\ ~data_loaded
    /\ SessionSets = <<EmptyFrame, EmptyFrame, EmptyFrame>>

====
